---- MODULE Spec2Model ----
(***************************************************************************)
(* Budget planner (src/main.py): schedule generators, savings management   *)
(* and the weekly report of generate_report.                               *)
(*                                                                         *)
(* Dates are day ordinals: 0 is 2024-01-01 (a Monday), so weekday() is the *)
(* ordinal modulo 7 with Monday = 0, as in Python.  Money is an integer    *)
(* number of cents.                                                        *)
(***************************************************************************)
EXTENDS Integers, Sequences, FiniteSets, TLC

VARIABLES today, holidays, gen, income, expenses, transfers, balances,
          debit, rows, pc, lastOp

vars == <<today, holidays, gen, income, expenses, transfers, balances,
          debit, rows, pc, lastOp>>

budgetVars == <<income, expenses, transfers, balances, debit, rows, lastOp>>

(***************************************************************************)
(* Bounds of the model.                                                    *)
(***************************************************************************)
\* number of calendar years, from 2024 on, the date table covers
NumYears == 4

\* Python None, for text fields (None) and for date fields (NoDate)
None == "None"

NoDate == 0 - 1

(***************************************************************************)
(* datetime.date and calendar.monthrange                                   *)
(***************************************************************************)
IsLeap(y) == (y % 4 = 0 /\ y % 100 # 0) \/ y % 400 = 0

DaysInMonth(y, m) ==
    IF m = 2 THEN (IF IsLeap(y) THEN 29 ELSE 28)
    ELSE IF m \in {4, 6, 9, 11} THEN 30 ELSE 31

RECURSIVE YearStart(_)
YearStart(y) ==
    IF y <= 2024 THEN 0
    ELSE YearStart(y - 1) + (IF IsLeap(y - 1) THEN 366 ELSE 365)

RECURSIVE MonthStart(_, _)
MonthStart(y, m) ==
    IF m <= 1 THEN 0 ELSE MonthStart(y, m - 1) + DaysInMonth(y, m - 1)

\* datetime(y, m, d).date() for a valid (y, m, d)
MkDate(y, m, d) == YearStart(y) + MonthStart(y, m) + d - 1

\* datetime(y, m, d) raises ValueError for a day the month does not have
ValidDate(y, m, d) == m \in 1..12 /\ d >= 1 /\ d <= DaysInMonth(y, m)

Years == 2024..(2024 + NumYears - 1)

MaxDay == YearStart(2024 + NumYears) - 1

Civil ==
    [n \in 0..MaxDay |->
        LET y == CHOOSE yy \in Years : YearStart(yy) <= n /\ n < YearStart(yy + 1)
            m == CHOOSE mm \in 1..12 :
                     /\ YearStart(y) + MonthStart(y, mm) <= n
                     /\ n < YearStart(y) + MonthStart(y, mm) + DaysInMonth(y, mm)
        IN  [year |-> y, month |-> m,
             day |-> n - YearStart(y) - MonthStart(y, m) + 1]]

YearOf(n) == Civil[n].year
MonthOf(n) == Civil[n].month
DayOf(n) == Civil[n].day

\* date.weekday(): Monday is 0, Sunday is 6
Weekday(n) == n % 7

(***************************************************************************)
(* is_business_day and the backward walk of the generators                 *)
(***************************************************************************)
is_business_day(date, holidays_set) ==
    IF Weekday(date) >= 5 THEN FALSE
    ELSE IF date \in holidays_set THEN FALSE
    ELSE TRUE

\* a walk that looks at the weekend only and forgets the holiday set
RECURSIVE AdjustBackWeekendOnly(_, _)
AdjustBackWeekendOnly(d, holidays_set) ==
    IF Weekday(d) < 5 THEN d ELSE AdjustBackWeekendOnly(d - 1, holidays_set)

\* adjusted_date = d; while not is_business_day(adjusted_date): adjusted_date -= 1 day
RECURSIVE AdjustBack(_, _)
AdjustBack(d, holidays_set) ==
    IF is_business_day(d, holidays_set) THEN d
    ELSE AdjustBack(d - 1, holidays_set)

(***************************************************************************)
(* Sequence helpers (sorted(), set(), list comprehensions)                 *)
(***************************************************************************)
\* a local variable: `value` is computed once and handed to Body
Let(value, Body(_)) == CHOOSE r \in {Body(x) : x \in {value}} : TRUE

Range(s) == {s[i] : i \in 1..Len(s)}

Sorted(s) == SortSeq(s, LAMBDA a, b : a < b)

RECURSIVE SetToSortedSeq(_)
SetToSortedSeq(S) ==
    IF S = {} THEN <<>>
    ELSE LET lo == CHOOSE x \in S : \A z \in S : x <= z
         IN  <<lo>> \o SetToSortedSeq(S \ {lo})

\* [d for d in dates if d >= datetime.now().date()]
DropPast(dates, now) == SelectSeq(dates, LAMBDA d : d >= now)

\* [f(x) for x in s]
MapAdjust(s, holidays_set) == [i \in 1..Len(s) |-> AdjustBack(s[i], holidays_set)]

(***************************************************************************)
(* get_recurring_dates                                                     *)
(***************************************************************************)
Frequencies == {"weekly", "bi-weekly", "monthly", "bi-monthly", "quarterly", "yearly"}

MonthStep(frequency) ==
    IF frequency = "monthly" THEN 1
    ELSE IF frequency = "bi-monthly" THEN 2
    ELSE IF frequency = "quarterly" THEN 3 ELSE 12

\* new_month = current_date.month + n; if new_month > 12: new_month -= 12; new_year += 1
\* day = min(current_date.day, calendar.monthrange(new_year, new_month)[1])
RollMonths(current_date, n) ==
    LET raw == MonthOf(current_date) + n
        new_month == IF raw > 12 THEN raw - 12 ELSE raw
        new_year == IF raw > 12 THEN YearOf(current_date) + 1 ELSE YearOf(current_date)
        last == DaysInMonth(new_year, new_month)
        day == IF DayOf(current_date) < last THEN DayOf(current_date) ELSE last
    IN  MkDate(new_year, new_month, day)

\* the yearly branch builds datetime(year + 1, month, day) without a clamp
YearlyRaises(current_date) ==
    ~ValidDate(YearOf(current_date) + 1, MonthOf(current_date), DayOf(current_date))

\* one pass of the if/elif chain that advances current_date
NextDate(current_date, frequency) ==
    IF frequency = "weekly" THEN current_date + 7
    ELSE IF frequency = "bi-weekly" THEN current_date + 14
    ELSE IF frequency = "yearly"
         THEN MkDate(YearOf(current_date) + 1, MonthOf(current_date), DayOf(current_date))
    ELSE RollMonths(current_date, MonthStep(frequency))

\* the while loop: the sequence of values current_date takes (the nominal
\* dates), and whether the loop ended in ValueError
RECURSIVE RecurringLoop(_, _, _, _)
RecurringLoop(current_date, end_date, frequency, acc) ==
    IF current_date > end_date THEN [nominal |-> acc, raised |-> FALSE]
    ELSE IF frequency \notin Frequencies
        THEN [nominal |-> Append(acc, current_date), raised |-> FALSE]
    ELSE IF frequency = "yearly" /\ YearlyRaises(current_date)
        THEN [nominal |-> Append(acc, current_date), raised |-> TRUE]
    ELSE RecurringLoop(NextDate(current_date, frequency), end_date, frequency,
                       Append(acc, current_date))

get_recurring_dates(start_date, end_date, frequency, holidays_set, now) ==
    Let(RecurringLoop(start_date, end_date, frequency, <<>>),
        LAMBDA loop :
            [nominal |-> loop.nominal,
             raised  |-> loop.raised,
             dates   |-> IF loop.raised THEN <<>>
                         ELSE DropPast(Sorted(MapAdjust(loop.nominal, holidays_set)),
                                       now)])

(***************************************************************************)
(* calculate_bi_monthly_dates_every_two_months                             *)
(***************************************************************************)
calculate_bi_monthly_dates_every_two_months(start_date, end_date, holidays_set, now) ==
    Let(RecurringLoop(start_date, end_date, "bi-monthly", <<>>),
        LAMBDA loop :
            [nominal |-> loop.nominal,
             raised  |-> FALSE,
             dates   |-> DropPast(MapAdjust(loop.nominal, holidays_set), now)])

(***************************************************************************)
(* calculate_twice_monthly_dates                                           *)
(***************************************************************************)
\* the 15th and the last day of current_iter_date's month that lie in
\* [start_date, end_date]
TwiceTargets(current_iter_date, start_date, end_date) ==
    LET year == YearOf(current_iter_date)
        month == MonthOf(current_iter_date)
        target_15th == MkDate(year, month, 15)
        target_last_day == MkDate(year, month, DaysInMonth(year, month))
    IN  {t \in {target_15th, target_last_day} : start_date <= t /\ t <= end_date}

\* if adjusted_date >= start_date: dates.append(adjusted_date)
TwiceKeep(adjusted_date, start_date) == adjusted_date >= start_date

FirstOfNextMonth(d) ==
    IF MonthOf(d) = 12 THEN MkDate(YearOf(d) + 1, 1, 1)
    ELSE MkDate(YearOf(d), MonthOf(d) + 1, 1)

\* the while loop: the nominal targets visited
TwiceLoop(start_date, end_date) ==
    LET loop[current_iter_date \in Int] ==
            IF current_iter_date > end_date THEN {}
            ELSE TwiceTargets(current_iter_date, start_date, end_date)
                 \cup loop[FirstOfNextMonth(current_iter_date)]
    IN  loop[start_date]

calculate_twice_monthly_dates(start_date, end_date, holidays_set, now) ==
    Let(TwiceLoop(start_date, end_date),
        LAMBDA targets :
            [nominal |-> SetToSortedSeq(targets),
             raised  |-> FALSE,
             dates   |-> DropPast(
                 SetToSortedSeq({a \in {AdjustBack(t, holidays_set) : t \in targets} :
                                    TwiceKeep(a, start_date)}),
                 now)])

(***************************************************************************)
(* Input families                                                          *)
(***************************************************************************)
\* holidays.txt as loaded by load_holidays: none, a few scattered days, and
\* a run of holidays covering the first half of March 2026
ScatteredHolidays ==
    {MkDate(2026, 4, 15), MkDate(2026, 4, 14), MkDate(2026, 11, 13),
     MkDate(2026, 12, 25)}

DenseHolidays == {d \in MkDate(2026, 3, 2)..MkDate(2026, 3, 13) : Weekday(d) < 5}

HolidaySets == {{}, ScatteredHolidays, DenseHolidays}

\* datetime.now().date() of the session
GenTodays == {MkDate(2024, 1, 8), MkDate(2026, 5, 20), MkDate(2026, 11, 2)}

GenStarts ==
    {MkDate(2024, 2, 29), MkDate(2026, 1, 15), MkDate(2026, 1, 31),
     MkDate(2026, 4, 1), MkDate(2026, 5, 30), MkDate(2026, 10, 15)}

GenEnds == {MkDate(2026, 3, 31), MkDate(2026, 7, 16), MkDate(2026, 12, 31)}

GenFrequencies == Frequencies \cup {"twice-monthly"}

(***************************************************************************)
(* The budget configuration of plan_budget_for_year                        *)
(***************************************************************************)
DefaultIncome ==
    [amount |-> 0, frequency |-> "bi-weekly", dates |-> <<>>, expiry_date |-> NoDate]

NoCall ==
    [fn |-> None, start_date |-> 0, end_date |-> 0, frequency |-> None,
     st |-> "idle", nominal |-> <<>>, dates |-> <<>>, raised |-> FALSE]

EmptyBudget ==
    /\ income = DefaultIncome
    /\ expenses = <<>>
    /\ transfers = <<>>
    /\ balances = <<>>
    /\ debit = 0
    /\ rows = <<>>
    /\ lastOp = None

(***************************************************************************)
(* Specification of the schedule generators as functions of their inputs   *)
(***************************************************************************)
InitGen ==
    /\ today \in GenTodays
    /\ holidays \in HolidaySets
    /\ \E fn \in {"get_recurring_dates", "calculate_twice_monthly_dates",
                  "calculate_bi_monthly_dates_every_two_months"},
          s \in GenStarts, e \in GenEnds, f \in GenFrequencies :
           /\ (fn = "calculate_twice_monthly_dates" => f = "twice-monthly")
           /\ (fn = "calculate_bi_monthly_dates_every_two_months" => f = "bi-monthly")
           /\ (f \in {"weekly", "bi-weekly"} => s >= MkDate(2026, 1, 1))
           /\ gen = [fn |-> fn, start_date |-> s, end_date |-> e, frequency |-> f,
                     st |-> "call", nominal |-> <<>>, dates |-> <<>>,
                     raised |-> FALSE]
    /\ EmptyBudget
    /\ pc = "menu"

Return(result) ==
    /\ gen' = [gen EXCEPT !.st = IF result.raised THEN "raised" ELSE "returned",
                          !.nominal = result.nominal,
                          !.dates = result.dates,
                          !.raised = result.raised]
    /\ UNCHANGED <<today, holidays, pc>>
    /\ UNCHANGED budgetVars

CallGetRecurringDates ==
    /\ gen.st = "call"
    /\ gen.fn = "get_recurring_dates"
    /\ Return(get_recurring_dates(gen.start_date, gen.end_date, gen.frequency,
                                  holidays, today))

CallTwiceMonthly ==
    /\ gen.st = "call"
    /\ gen.fn = "calculate_twice_monthly_dates"
    /\ Return(calculate_twice_monthly_dates(gen.start_date, gen.end_date,
                                            holidays, today))

CallBiMonthly ==
    /\ gen.st = "call"
    /\ gen.fn = "calculate_bi_monthly_dates_every_two_months"
    /\ Return(calculate_bi_monthly_dates_every_two_months(gen.start_date,
                                                          gen.end_date,
                                                          holidays, today))

NextGen == CallGetRecurringDates \/ CallTwiceMonthly \/ CallBiMonthly

SpecGen == InitGen /\ [][NextGen]_vars

(***************************************************************************)
(* generate_report: the pass that regenerates the recurring dates          *)
(***************************************************************************)
\* end_of_year = datetime(today.year, 12, 31).date()
EndOfYear(now) == MkDate(YearOf(now), 12, 31)

\* a pass that spares the weekly items only
RegeneratesAllButWeekly(item) == item.frequency # "weekly" /\ item.dates # <<>>

\* item['frequency'] not in ['weekly', 'one-time', 'manual'] and item.get('dates')
Regenerates(item) ==
    item.frequency \notin {"weekly", "one-time", "manual"} /\ item.dates # <<>>

\* [d for d in new_dates if item.get('expiry_date') is None or d <= item['expiry_date']]
KeepUntilExpiry(new_dates, expiry_date) ==
    SelectSeq(new_dates, LAMBDA d : expiry_date = NoDate \/ d <= expiry_date)

RegenExpense(item, end_of_year, holidays_set, now) ==
    IF ~Regenerates(item) THEN [item |-> item, raised |-> FALSE]
    ELSE Let(get_recurring_dates(item.dates[1], end_of_year, item.frequency,
                                 holidays_set, now),
             LAMBDA r :
                 IF r.raised THEN [item |-> item, raised |-> TRUE]
                 ELSE [item |-> [item EXCEPT !.dates =
                                    KeepUntilExpiry(r.dates, item.expiry_date)],
                       raised |-> FALSE])

RegenTransfer(transfer, end_of_year, holidays_set, now) ==
    IF ~Regenerates(transfer) THEN [item |-> transfer, raised |-> FALSE]
    ELSE Let(get_recurring_dates(transfer.dates[1], end_of_year,
                                 transfer.frequency, holidays_set, now),
             LAMBDA r :
                 IF r.raised THEN [item |-> transfer, raised |-> TRUE]
                 ELSE [item |-> [transfer EXCEPT !.dates = r.dates],
                       raised |-> FALSE])

\* the for loop over the items: every item before the first one whose
\* regeneration raises has been rewritten in place
RegenLoop(items, res) ==
    Let({i \in 1..Len(items) : res[i].raised},
        LAMBDA bad :
            [items  |-> [i \in 1..Len(items) |->
                            IF \A j \in bad : i < j THEN res[i].item ELSE items[i]],
             raised |-> bad # {}])

RegenExpenses(items, end_of_year, holidays_set, now) ==
    Let(<<>> \o [i \in 1..Len(items) |->
                    RegenExpense(items[i], end_of_year, holidays_set, now)],
        LAMBDA res : RegenLoop(items, res))

RegenTransfers(items, end_of_year, holidays_set, now) ==
    Let(<<>> \o [i \in 1..Len(items) |->
                    RegenTransfer(items[i], end_of_year, holidays_set, now)],
        LAMBDA res : RegenLoop(items, res))

\* all_income_paydates: a local list, budget_config['income'] is not written
IncomePaydates(inc, end_of_year, holidays_set, now) ==
    IF inc.frequency \notin {"one-time", "manual"} /\ inc.dates # <<>>
    THEN get_recurring_dates(inc.dates[1], end_of_year, inc.frequency,
                             holidays_set, now)
    ELSE [nominal |-> <<>>, raised |-> FALSE, dates |-> inc.dates]

(***************************************************************************)
(* generate_report: the weekly rows                                        *)
(***************************************************************************)
\* a week that starts on Sunday
StartOfCurrentWeekSunday(now) == now - ((Weekday(now) + 1) % 7)

\* start_of_current_week = today - timedelta(days=today.weekday())
StartOfCurrentWeek(now) == now - Weekday(now)

\* week_start <= d <= week_end, week_end = week_start + timedelta(days=6)
InWeek(d, week_start) == week_start <= d /\ d <= week_start + 6

AnyInWeek(dates, week_start) ==
    \E i \in 1..Len(dates) : InWeek(dates[i], week_start)

RECURSIVE SumOver(_, _)
SumOver(S, f) ==
    IF S = {} THEN 0
    ELSE LET i == CHOOSE x \in S : TRUE IN f[i] + SumOver(S \ {i}, f)

\* an income counted once in a week that holds a paydate
WeeklyIncomeOnce(paydates, amount, week_start) ==
    IF AnyInWeek(paydates, week_start) THEN amount ELSE 0

\* for pay_date in all_income_paydates: if in week: weekly_income += amount
WeeklyIncome(paydates, amount, week_start) ==
    amount * Cardinality({i \in 1..Len(paydates) : InWeek(paydates[i], week_start)})

\* a test of the dates that never looks at the expiry date
ExpenseAppliesIgnoringExpiry(item, week_start) ==
    IF item.frequency = "weekly" THEN TRUE ELSE AnyInWeek(item.dates, week_start)

\* should_apply_expense_this_week
ExpenseApplies(item, week_start) ==
    IF item.expiry_date # NoDate /\ week_start > item.expiry_date THEN FALSE
    ELSE IF item.frequency = "weekly" THEN TRUE
    ELSE AnyInWeek(item.dates, week_start)

KeyNameWithoutCategory(item) == item.name

\* key_name = f"{category}: {item_name}" if category else item_name
KeyName(item) ==
    IF item.category # None THEN item.category \o ": " \o item.name ELSE item.name

\* weekly_expenses_breakdown[key_name] += amount
ExpensesBreakdown(items, week_start) ==
    LET applied == {i \in 1..Len(items) : ExpenseApplies(items[i], week_start)}
        amounts == [i \in 1..Len(items) |-> items[i].amount]
    IN  [k \in {KeyName(items[i]) : i \in applied} |->
            SumOver({i \in applied : KeyName(items[i]) = k}, amounts)]

\* weekly_total_expenses += amount
TotalExpenses(items, week_start) ==
    SumOver({i \in 1..Len(items) : ExpenseApplies(items[i], week_start)},
            [i \in 1..Len(items) |-> items[i].amount])

\* if not s_target: continue; should_apply_savings_this_week
TransferApplies(s_transfer, week_start) ==
    IF s_transfer.target = None THEN FALSE
    ELSE IF s_transfer.frequency = "weekly" THEN TRUE
    ELSE AnyInWeek(s_transfer.dates, week_start)

\* weekly_savings_by_target[s_target] += s_amount
SavingsByTarget(items, week_start) ==
    LET applied == {i \in 1..Len(items) : TransferApplies(items[i], week_start)}
        amounts == [i \in 1..Len(items) |-> items[i].amount]
    IN  [k \in {items[i].target : i \in applied} |->
            SumOver({i \in applied : items[i].target = k}, amounts)]

\* a total that also counts the transfers without target
TotalSavingsEveryTransfer(items, week_start) ==
    SumOver({i \in 1..Len(items) :
               items[i].frequency = "weekly" \/ AnyInWeek(items[i].dates, week_start)},
            [i \in 1..Len(items) |-> items[i].amount])

\* weekly_total_savings += s_amount
TotalSavings(items, week_start) ==
    SumOver({i \in 1..Len(items) : TransferApplies(items[i], week_start)},
            [i \in 1..Len(items) |-> items[i].amount])

\* a balance update that forgets to deduct the savings transfers
RunningBalanceNoSavings(running_balance, weekly_income, weekly_expenses, weekly_savings) ==
    running_balance + weekly_income - weekly_expenses

\* running_balance += weekly_income - weekly_total_expenses - weekly_total_savings
RunningBalance(running_balance, weekly_income, weekly_expenses, weekly_savings) ==
    running_balance + weekly_income - weekly_expenses - weekly_savings

\* an update that assigns the week's amount instead of adding it
AccumulateOverwrite(cumulative, weekly_by_target) ==
    [k \in DOMAIN cumulative \cup DOMAIN weekly_by_target |->
        IF k \in DOMAIN weekly_by_target THEN weekly_by_target[k]
        ELSE cumulative[k]]

\* an update that credits the week's transfers to every account
AccumulateEveryAccount(cumulative, weekly_by_target) ==
    [k \in DOMAIN cumulative \cup DOMAIN weekly_by_target |->
        (IF k \in DOMAIN cumulative THEN cumulative[k] ELSE 0)
        + SumOver(DOMAIN weekly_by_target, weekly_by_target)]

\* an update that keeps a balance for the stored accounts only
AccumulateStoredAccounts(cumulative, weekly_by_target) ==
    [k \in DOMAIN cumulative |->
        cumulative[k]
        + (IF k \in DOMAIN weekly_by_target THEN weekly_by_target[k] ELSE 0)]

\* for target, amount in weekly_savings_by_target.items():
\*     cumulative_savings_by_target[target] += amount      (a defaultdict(float))
Accumulate(cumulative, weekly_by_target) ==
    [k \in DOMAIN cumulative \cup DOMAIN weekly_by_target |->
        (IF k \in DOMAIN cumulative THEN cumulative[k] ELSE 0)
        + (IF k \in DOMAIN weekly_by_target THEN weekly_by_target[k] ELSE 0)]

\* datetime._isoweek1monday(year): the Monday that starts ISO week 1
IsoWeek1Monday(year) ==
    IF Weekday(YearStart(year)) > 3
    THEN YearStart(year) - Weekday(YearStart(year)) + 7
    ELSE YearStart(year) - Weekday(YearStart(year))

\* date.isocalendar()[1]
isocalendar_week(date) ==
    IF date < IsoWeek1Monday(YearOf(date))
    THEN ((date - IsoWeek1Monday(YearOf(date) - 1)) \div 7) + 1
    ELSE IF (date - IsoWeek1Monday(YearOf(date))) \div 7 >= 52
            /\ date >= IsoWeek1Monday(YearOf(date) + 1)
    THEN 1
    ELSE ((date - IsoWeek1Monday(YearOf(date))) \div 7) + 1

\* week_data_row
WeekRow(week_start, inc, paydates, exps, trs, running_balance, cumulative) ==
    [week_of_year   |-> isocalendar_week(week_start),
     week_start     |-> week_start,
     week_end       |-> week_start + 6,
     income         |-> WeeklyIncome(paydates, inc.amount, week_start),
     total_expenses |-> TotalExpenses(exps, week_start),
     total_savings  |-> TotalSavings(trs, week_start),
     running_balance |->
         RunningBalance(running_balance,
                        WeeklyIncome(paydates, inc.amount, week_start),
                        TotalExpenses(exps, week_start),
                        TotalSavings(trs, week_start)),
     breakdown      |-> ExpensesBreakdown(exps, week_start),
     transferred    |-> SavingsByTarget(trs, week_start),
     saved          |-> Accumulate(cumulative, SavingsByTarget(trs, week_start))]

\* len(weeks): week starts from start_of_current_week while <= end_of_year
NumWeeks(start_of_current_week, end_of_year) ==
    IF start_of_current_week > end_of_year THEN 0
    ELSE ((end_of_year - start_of_current_week) \div 7) + 1

\* for week_start in weeks[..n]: ... financial_data.append(week_data_row);
\* every week starts from the balances the week before it left, and a run
\* of weeks is taken as two consecutive shorter runs
RECURSIVE RowsFrom(_, _, _, _, _, _, _, _)
RowsFrom(week_start, n, inc, paydates, exps, trs, running_balance, cumulative) ==
    IF n = 0 THEN <<>>
    ELSE IF n = 1
        THEN <<WeekRow(week_start, inc, paydates, exps, trs, running_balance,
                       cumulative)>>
    ELSE Let(RowsFrom(week_start, n \div 2, inc, paydates, exps, trs,
                      running_balance, cumulative),
             LAMBDA done :
                 done \o RowsFrom(week_start + 7 * (n \div 2), n - (n \div 2), inc,
                                  paydates, exps, trs,
                                  done[Len(done)].running_balance,
                                  done[Len(done)].saved))

BuildRows(week_start, end_of_year, inc, paydates, exps, trs, running_balance, cumulative) ==
    RowsFrom(week_start, NumWeeks(week_start, end_of_year), inc, paydates, exps,
             trs, running_balance, cumulative)

(***************************************************************************)
(* generate_report                                                         *)
(***************************************************************************)
GenerateReport ==
    /\ pc = "menu"
    /\ \E end_of_year \in {EndOfYear(today)} :
       \E e \in {RegenExpenses(expenses, end_of_year, holidays, today)},
          t \in {RegenTransfers(transfers, end_of_year, holidays, today)},
          p \in {IncomePaydates(income, end_of_year, holidays, today)} :
           /\ expenses' = e.items
           /\ transfers' = IF e.raised THEN transfers ELSE t.items
           /\ IF e.raised \/ t.raised \/ p.raised
              THEN /\ pc' = "crashed"
                   /\ lastOp' = "raised"
                   /\ rows' = rows
              ELSE /\ pc' = pc
                   /\ lastOp' = "report"
                   /\ rows' = BuildRows(StartOfCurrentWeek(today), end_of_year,
                                        income, p.dates, e.items, t.items,
                                        debit, balances)
    /\ UNCHANGED <<today, holidays, gen, income, balances, debit>>

(***************************************************************************)
(* Specification of generate_report over budgets loaded from                *)
(* my_budget_data.json                                                     *)
(***************************************************************************)
\* largest number of expense items in a loaded budget
MaxExpenses == 1

\* largest number of savings transfers in a loaded budget
MaxTransfers == 1

\* the day the budget file was written by an earlier session
SavedOn == MkDate(2026, 10, 5)

ReportTodays == {MkDate(2026, 11, 2), MkDate(2026, 11, 18)}

ReportHolidaySets == {{}, ScatteredHolidays}

\* the dates list a manage_* function stores for a periodic schedule
StoredSchedule(start_date, frequency, holidays_set) ==
    IF frequency = "bi-monthly"
    THEN calculate_bi_monthly_dates_every_two_months(
             start_date, EndOfYear(SavedOn), holidays_set, SavedOn).dates
    ELSE get_recurring_dates(start_date, EndOfYear(SavedOn), frequency,
                             holidays_set, SavedOn).dates

Expense(name, category, amount, frequency, dates, expiry_date) ==
    [name |-> name, category |-> category, amount |-> amount,
     frequency |-> frequency, dates |-> dates, expiry_date |-> expiry_date]

ExpenseItems(holidays_set) ==
    {Expense("Groceries", "Groceries", 4000, "weekly", <<>>, NoDate),
     Expense("Rent", "Bills", 90000, "monthly",
             StoredSchedule(MkDate(2026, 10, 15), "monthly", holidays_set), NoDate),
     Expense("Phone", "Bills", 2500, "bi-weekly",
             StoredSchedule(MkDate(2026, 10, 16), "bi-weekly", holidays_set),
             MkDate(2026, 11, 25)),
     Expense("Video", "Streaming Services", 1500, "bi-monthly",
             StoredSchedule(MkDate(2026, 10, 31), "bi-monthly", holidays_set), NoDate),
     Expense("Gift", "One-Time", 7000, "one-time", <<MkDate(2026, 12, 10)>>, NoDate),
     Expense("Taxes", "Misc Monthly", 1200, "manual",
             <<MkDate(2026, 11, 5), MkDate(2026, 11, 6), MkDate(2026, 12, 4),
               MkDate(2027, 1, 2)>>,
             NoDate),
     Expense("Lessons", "Misc Monthly", 3000, "manual",
             <<MkDate(2026, 11, 12), MkDate(2026, 11, 26), MkDate(2026, 12, 10)>>,
             MkDate(2026, 11, 24))}

Transfer(amount, frequency, dates, target) ==
    [amount |-> amount, frequency |-> frequency, dates |-> dates, target |-> target]

TransferItems(holidays_set) ==
    {Transfer(5000, "weekly",
              StoredSchedule(MkDate(2026, 10, 16), "weekly", holidays_set), "House"),
     Transfer(20000, "monthly",
              StoredSchedule(MkDate(2026, 10, 15), "monthly", holidays_set), "House"),
     Transfer(3000, "bi-weekly",
              StoredSchedule(MkDate(2026, 10, 16), "bi-weekly", holidays_set), "Car"),
     Transfer(10000, "one-time", <<MkDate(2026, 11, 20)>>, "Car"),
     Transfer(700, "manual", <<MkDate(2026, 11, 4), MkDate(2026, 12, 30)>>, "House"),
     Transfer(2500, "bi-weekly",
              StoredSchedule(MkDate(2026, 10, 23), "bi-weekly", holidays_set), "Boat"),
     Transfer(900, "weekly", <<>>, None)}

IncomeOptions(holidays_set) ==
    {DefaultIncome,
     [amount |-> 100000, frequency |-> "bi-weekly",
      dates |-> StoredSchedule(MkDate(2026, 10, 16), "bi-weekly", holidays_set),
      expiry_date |-> NoDate],
     [amount |-> 100000, frequency |-> "bi-weekly",
      dates |-> StoredSchedule(MkDate(2026, 10, 16), "bi-weekly", holidays_set),
      expiry_date |-> MkDate(2026, 11, 20)],
     [amount |-> 30000, frequency |-> "weekly",
      dates |-> StoredSchedule(MkDate(2026, 10, 15), "weekly", holidays_set),
      expiry_date |-> NoDate],
     [amount |-> 500000, frequency |-> "one-time",
      dates |-> <<MkDate(2025, 10, 6)>>, expiry_date |-> NoDate],
     [amount |-> 45000, frequency |-> "manual",
      dates |-> <<MkDate(2026, 11, 4), MkDate(2026, 11, 6), MkDate(2026, 11, 20)>>,
      expiry_date |-> NoDate]}

SavedBalances == [a \in {"House", "Car", "Trip"} |->
                     IF a = "House" THEN 50000 ELSE IF a = "Car" THEN 0 ELSE 1500]

SeqsUpTo(S, n) == UNION {[1..k -> S] : k \in 0..n}

InitReport ==
    /\ today \in ReportTodays
    /\ holidays \in ReportHolidaySets
    /\ gen = NoCall
    /\ income \in IncomeOptions(holidays)
    /\ expenses \in SeqsUpTo(ExpenseItems(holidays), MaxExpenses)
    /\ transfers \in SeqsUpTo(TransferItems(holidays), MaxTransfers)
    /\ balances = SavedBalances
    /\ debit = 25000
    /\ rows = <<>>
    /\ lastOp = None
    /\ pc = "menu"

NextReport == GenerateReport

SpecReport == InitReport /\ [][NextReport]_vars

(***************************************************************************)
(* Budget.recalculate_schedules and the pro-ration resolver.  The tests     *)
(* call them; their code is not among the sources, so this part follows     *)
(* section 4.4 of the specification and the arithmetic of the tests.        *)
(***************************************************************************)
\* -((amount / (days_in_month / 2.0)) * prorated_days), in whole cents
ProRatedAmount(amount, last_paydate, expiry_date) ==
    0 - ((amount * 2 * (expiry_date - last_paydate))
            \div DaysInMonth(YearOf(last_paydate), MonthOf(last_paydate)))

\* the synthesized entry: fixed name, dated on the expiry date
ProRatedIncome(amount, expiry_date) ==
    Expense("Final Pro-rated Paycheck", "Income", amount, "one-time",
            <<expiry_date>>, NoDate)

IsProRatedIncome(item) ==
    item.name = "Final Pro-rated Paycheck" /\ item.category = "Income"

\* the most recent scheduled paydate on or before the expiry date
LastPaydate(schedule, expiry_date) ==
    LET before == {d \in Range(schedule) : d <= expiry_date}
    IN  IF before = {} THEN NoDate
        ELSE CHOOSE d \in before : \A e \in before : e <= d

\* the schedule of an item from its anchor over the horizon
AnchoredSchedule(item, end_date, holidays_set, now) ==
    IF item.frequency = "twice-monthly"
    THEN calculate_twice_monthly_dates(item.start_date_for_schedule, end_date,
                                       holidays_set, now).dates
    ELSE IF item.frequency = "bi-monthly"
    THEN calculate_bi_monthly_dates_every_two_months(
             item.start_date_for_schedule, end_date, holidays_set, now).dates
    ELSE get_recurring_dates(item.start_date_for_schedule, end_date,
                             item.frequency, holidays_set, now).dates

\* one entry when the expiry falls strictly after the last paydate, else none
ProRation(inc, schedule) ==
    IF inc.frequency # "twice-monthly" \/ inc.expiry_date = NoDate THEN <<>>
    ELSE Let(LastPaydate(schedule, inc.expiry_date),
             LAMBDA last_paydate :
                 IF last_paydate = NoDate \/ last_paydate = inc.expiry_date
                 THEN <<>>
                 ELSE <<ProRatedIncome(
                          ProRatedAmount(inc.amount, last_paydate, inc.expiry_date),
                          inc.expiry_date)>>)

\* manual and one-time dates are authoritative; the others follow the anchor
RecalcItem(item, end_date, holidays_set, now) ==
    IF item.frequency \in {"manual", "one-time"} THEN item
    ELSE [item EXCEPT !.dates =
            KeepUntilExpiry(AnchoredSchedule(item, end_date, holidays_set, now),
                            item.expiry_date)]

recalculate_schedules(inc, exps, end_date, holidays_set, now) ==
    Let(IF inc.frequency \in {"manual", "one-time"} THEN inc.dates
        ELSE AnchoredSchedule(inc, end_date, holidays_set, now),
        LAMBDA schedule :
            [income   |-> [inc EXCEPT !.dates =
                              KeepUntilExpiry(schedule, inc.expiry_date)],
             expenses |-> [i \in 1..Len(SelectSeq(exps, LAMBDA e : ~IsProRatedIncome(e))) |->
                              RecalcItem(SelectSeq(exps, LAMBDA e : ~IsProRatedIncome(e))[i],
                                         end_date, holidays_set, now)]
                          \o ProRation(inc, schedule)])

ProRateEnds == {MkDate(2026, 1, 31), MkDate(2026, 3, 31)}

RecalculateSchedules ==
    /\ pc = "menu"
    /\ \E end_date \in ProRateEnds :
       \E r \in {recalculate_schedules(income, expenses, end_date, holidays, today)} :
           /\ income' = r.income
           /\ expenses' = r.expenses
    /\ lastOp' = "recalc"
    /\ UNCHANGED <<today, holidays, gen, transfers, balances, debit, rows, pc>>

(***************************************************************************)
(* Specification of recalculation followed by the report                   *)
(***************************************************************************)
ProRateTodays == {MkDate(2026, 1, 5), MkDate(2026, 1, 19)}

ProRateHolidaySets == {{}, {MkDate(2026, 1, 15), MkDate(2026, 2, 13)}}

Anchored(item, start_date) == [start_date_for_schedule |-> start_date] @@ item

ProRateIncomes ==
    {Anchored([amount |-> a, frequency |-> f, dates |-> <<>>, expiry_date |-> x], s) :
        a \in {200000, 123456},
        f \in {"twice-monthly", "bi-weekly"},
        s \in {MkDate(2026, 1, 15), MkDate(2026, 1, 30), MkDate(2026, 2, 13)},
        x \in {NoDate, MkDate(2026, 1, 20), MkDate(2026, 1, 30),
               MkDate(2026, 2, 20), MkDate(2026, 3, 10)}}

ProRateExpenses ==
    {Expense("Gift", "Misc", 7000, "one-time", <<MkDate(2026, 1, 21)>>, NoDate),
     Anchored(Expense("Rent", "Bills", 90000, "monthly", <<>>, NoDate),
              MkDate(2026, 1, 20))}

InitProRate ==
    /\ today \in ProRateTodays
    /\ holidays \in ProRateHolidaySets
    /\ gen = NoCall
    /\ income \in ProRateIncomes
    /\ expenses \in SeqsUpTo(ProRateExpenses, MaxExpenses)
    /\ transfers = <<>>
    /\ balances = <<>>
    /\ debit = 0
    /\ rows = <<>>
    /\ lastOp = None
    /\ pc = "menu"

NextProRate == RecalculateSchedules \/ GenerateReport

SpecProRate == InitProRate /\ [][NextProRate]_vars

(***************************************************************************)
(* manage_savings_accounts and manage_savings                              *)
(***************************************************************************)
MaxSavingsTransfers == 2

AccountNames == {"", "House", "Car"}

AccountBalances == {0, 50000}

\* what the user answers to the schedule questions of manage_savings
ScheduleChoice(periodic, frequency, start_date, dates) ==
    [periodic |-> periodic, frequency |-> frequency, start_date |-> start_date,
     dates |-> dates]

\* no dates entered for a manual schedule keeps (or cancels) the schedule
NoSchedule == ScheduleChoice(FALSE, "manual", NoDate, <<>>)

ScheduleChoices ==
    {ScheduleChoice(TRUE, "monthly", MkDate(2026, 11, 16), <<>>),
     ScheduleChoice(TRUE, "yearly", MkDate(2024, 2, 29), <<>>),
     ScheduleChoice(TRUE, "one-time", MkDate(2026, 12, 1), <<>>),
     ScheduleChoice(FALSE, "manual", NoDate, <<MkDate(2026, 11, 20)>>)}

\* get_float_input returns None when nothing is entered
NoAmount == 0 - 1

\* the frequency and dates a schedule answer yields, or ValueError
NewSchedule(choice, holidays_set, now) ==
    IF ~choice.periodic
        THEN [frequency |-> "manual", dates |-> choice.dates, raised |-> FALSE]
    ELSE IF choice.frequency = "bi-monthly"
        THEN [frequency |-> "bi-monthly", raised |-> FALSE,
              dates |-> calculate_bi_monthly_dates_every_two_months(
                            choice.start_date, EndOfYear(now), holidays_set, now).dates]
    ELSE IF choice.frequency = "one-time"
        THEN [frequency |-> "one-time", dates |-> <<choice.start_date>>, raised |-> FALSE]
    ELSE Let(get_recurring_dates(choice.start_date, EndOfYear(now), choice.frequency,
                                 holidays_set, now),
             LAMBDA r : [frequency |-> choice.frequency, dates |-> r.dates,
                         raised |-> r.raised])

\* savings_accounts[name] = balance, when the name is new and not empty
AddAccount ==
    /\ pc = "menu"
    /\ \E name \in AccountNames, balance \in AccountBalances :
         /\ name \notin DOMAIN balances
         /\ name # ""
         /\ balances' = [k \in DOMAIN balances \cup {name} |->
                            IF k = name THEN balance ELSE balances[k]]
    /\ lastOp' = "add_account"
    /\ UNCHANGED <<today, holidays, gen, income, expenses, transfers, debit, rows, pc>>

\* savings_accounts[old_name] = new_balance
SetBalance ==
    /\ pc = "menu"
    /\ \E old_name \in DOMAIN balances, new_balance \in AccountBalances :
         balances' = [balances EXCEPT ![old_name] = new_balance]
    /\ lastOp' = "set_balance"
    /\ UNCHANGED <<today, holidays, gen, income, expenses, transfers, debit, rows, pc>>

CascadeDeleteNothing(savings_transfers, old_name) == savings_transfers

\* [t for t in budget_config['savings_transfers'] if t.get('target') != old_name]
CascadeDelete(savings_transfers, old_name) ==
    SelectSeq(savings_transfers, LAMBDA t : t.target # old_name)

\* the cascade, then del savings_accounts[old_name]
DeleteAccount ==
    /\ pc = "menu"
    /\ \E old_name \in DOMAIN balances :
         /\ transfers' = CascadeDelete(transfers, old_name)
         /\ balances' = [k \in DOMAIN balances \ {old_name} |-> balances[k]]
    /\ lastOp' = IF Len(transfers') < Len(transfers) THEN "delete_account_cascade"
                 ELSE "delete_account"
    /\ UNCHANGED <<today, holidays, gen, income, expenses, debit, rows, pc>>

\* get_savings_target_input: one of existing_targets, or None when there is none
SavingsTargets(savings_balances) == DOMAIN savings_balances

\* current_savings_transfers.pop(idx)
RemoveTransfer ==
    /\ pc = "menu"
    /\ \E idx \in 1..Len(transfers) :
         transfers' = [i \in 1..(Len(transfers) - 1) |->
                          IF i < idx THEN transfers[i] ELSE transfers[i + 1]]
    /\ lastOp' = "remove_transfer"
    /\ UNCHANGED <<today, holidays, gen, income, expenses, balances, debit, rows, pc>>

\* the new amount, the new target and the new schedule of the selected
\* transfer; a ValueError of the schedule is caught after frequency and dates
\* were reset
ModifyTransfer ==
    /\ pc = "menu"
    /\ \E idx \in 1..Len(transfers) :
       \E new_amount \in {NoAmount, 7500} :
       \E new_target \in {None} \cup SavingsTargets(balances) :
       \E choice \in {NoSchedule} \cup ScheduleChoices :
       \E s \in {NewSchedule(choice, holidays, today)} :
         /\ transfers' = [transfers EXCEPT ![idx] =
              [amount    |-> IF new_amount = NoAmount THEN @.amount ELSE new_amount,
               target    |-> IF new_target = None THEN @.target ELSE new_target,
               frequency |-> IF choice = NoSchedule THEN @.frequency ELSE s.frequency,
               dates     |-> IF choice = NoSchedule THEN @.dates
                             ELSE IF s.raised THEN <<>> ELSE s.dates]]
         /\ lastOp' = IF new_target = None THEN "modify_transfer" ELSE "retarget"
    /\ UNCHANGED <<today, holidays, gen, income, expenses, balances, debit, rows, pc>>

\* current_savings_transfers.append({...}), only for an existing target; a
\* ValueError of the schedule ends the program before the append
AddTransfer ==
    /\ pc = "menu"
    /\ Len(transfers) < MaxSavingsTransfers
    /\ \E savings_amount \in {5000} :
       \E target_account \in SavingsTargets(balances) :
       \E choice \in ScheduleChoices :
       \E s \in {NewSchedule(choice, holidays, today)} :
         IF s.raised
         THEN /\ pc' = "crashed"
              /\ lastOp' = "raised"
              /\ transfers' = transfers
         ELSE /\ pc' = pc
              /\ lastOp' = "add_transfer"
              /\ transfers' = Append(transfers,
                    Transfer(savings_amount, s.frequency, s.dates, target_account))
    /\ UNCHANGED <<today, holidays, gen, income, expenses, balances, debit, rows>>

\* plan_budget_for_year starts from the default budget
InitManage ==
    /\ today = MkDate(2026, 11, 2)
    /\ holidays = {}
    /\ gen = NoCall
    /\ EmptyBudget
    /\ pc = "menu"

NextManage ==
    \/ AddAccount
    \/ SetBalance
    \/ DeleteAccount
    \/ AddTransfer
    \/ ModifyTransfer
    \/ RemoveTransfer

SpecManage == InitManage /\ [][NextManage]_vars

(***************************************************************************)
(* Specification of reports generated as the days pass: the horizon of a   *)
(* report is [today, end of today's year]                                  *)
(***************************************************************************)
HorizonTodays == {MkDate(2026, 11, 2), MkDate(2026, 12, 20), MkDate(2027, 1, 4)}

\* a periodic bill as manage_bills stores it on SavedOn; the start date the
\* user entered is kept beside it, the program itself does not store it
HorizonBill(name, amount, frequency, start_date, holidays_set) ==
    Anchored(Expense(name, "Bills", amount, frequency,
                     StoredSchedule(start_date, frequency, holidays_set), NoDate),
             start_date)

HorizonItems(holidays_set) ==
    {HorizonBill("Rent", 90000, "monthly", MkDate(2026, 10, 15), holidays_set),
     HorizonBill("Insurance", 30000, "quarterly", MkDate(2026, 10, 20), holidays_set),
     HorizonBill("Phone", 2500, "bi-weekly", MkDate(2026, 10, 16), holidays_set),
     HorizonBill("Video", 1500, "bi-monthly", MkDate(2026, 10, 31), holidays_set),
     HorizonBill("Loan", 40000, "monthly", MkDate(2026, 10, 16), holidays_set),
     HorizonBill("Gym", 1000, "weekly", MkDate(2026, 11, 18), holidays_set)}

\* holidays.txt: none, a few scattered days, or one Monday
HorizonHolidaySets == ReportHolidaySets \cup {{MkDate(2026, 11, 16)}}

\* a twice-monthly income as manage_income stores it on the day saved_on
TwiceMonthlyIncome(amount, saved_on, holidays_set) ==
    [amount |-> amount, frequency |-> "twice-monthly",
     dates |-> calculate_twice_monthly_dates(saved_on, EndOfYear(saved_on),
                                             holidays_set, saved_on).dates,
     expiry_date |-> NoDate]

HorizonIncomes(holidays_set) ==
    {inc \in IncomeOptions(holidays_set) : inc.frequency # "weekly"}
    \cup {TwiceMonthlyIncome(120000, SavedOn, holidays_set),
          TwiceMonthlyIncome(120000, MkDate(2026, 11, 2), holidays_set)}

\* the program is run again on a later day
DayPasses ==
    /\ pc = "menu"
    /\ \E later \in HorizonTodays : later > today /\ today' = later
    /\ lastOp' = "day"
    /\ UNCHANGED <<holidays, gen, income, expenses, transfers, balances, debit, rows, pc>>

InitHorizon ==
    /\ today \in HorizonTodays
    /\ holidays \in HorizonHolidaySets
    /\ gen = NoCall
    /\ income \in HorizonIncomes(holidays)
    /\ expenses \in SeqsUpTo(HorizonItems(holidays), MaxExpenses)
    /\ transfers = <<>>
    /\ balances = SavedBalances
    /\ debit = 25000
    /\ rows = <<>>
    /\ lastOp = None
    /\ pc = "menu"

NextHorizon == GenerateReport \/ DayPasses

SpecHorizon == InitHorizon /\ [][NextHorizon]_vars

(***************************************************************************)
(* save_budget_data                                                        *)
(***************************************************************************)
\* date.isoformat(): the text "YYYY-MM-DD", kept as the number YYYYMMDD with
\* a minus sign that tells a str from a date
isoformat(d) == 0 - (YearOf(d) * 10000 + MonthOf(d) * 100 + DayOf(d))

\* the value is a str, not a date (None is neither)
IsText(x) == x < NoDate

AnyText(dates) == \E i \in 1..Len(dates) : IsText(dates[i])

\* if 'dates' in item and item['dates']:
\*     item['dates'] = [d.isoformat() for d in item['dates']]
\* a str has no isoformat: AttributeError before the assignment
SaveDates(item) ==
    IF item.dates = <<>> THEN [item |-> item, raised |-> FALSE]
    ELSE IF AnyText(item.dates) THEN [item |-> item, raised |-> TRUE]
    ELSE [item |-> [item EXCEPT !.dates =
                       [i \in 1..Len(item.dates) |-> isoformat(item.dates[i])]],
          raised |-> FALSE]

\* ... and then item['expiry_date'] = item['expiry_date'].isoformat()
SaveExpense(item) ==
    Let(SaveDates(item),
        LAMBDA r :
            IF r.raised \/ item.expiry_date = NoDate THEN r
            ELSE IF IsText(item.expiry_date) THEN [item |-> r.item, raised |-> TRUE]
            ELSE [item |-> [r.item EXCEPT !.expiry_date = isoformat(item.expiry_date)],
                  raised |-> FALSE])

\* the for loop over the items of data.copy(), a shallow copy: the items
\* are the ones of budget_config, and every item up to the first one that
\* raises has been rewritten in place
SaveLoop(items, res) ==
    Let({i \in 1..Len(items) : res[i].raised},
        LAMBDA bad :
            [items  |-> [i \in 1..Len(items) |->
                            IF \A j \in bad : i <= j THEN res[i].item ELSE items[i]],
             raised |-> bad # {}])

SaveTransfers(inc, saved_expenses, trs) ==
    Let(SaveLoop(trs, <<>> \o [i \in 1..Len(trs) |-> SaveDates(trs[i])]),
        LAMBDA t :
            IF t.raised
            THEN [income |-> inc, expenses |-> saved_expenses, transfers |-> t.items,
                  raised |-> TRUE]
            ELSE [income |-> SaveDates(inc).item, expenses |-> saved_expenses,
                  transfers |-> t.items, raised |-> SaveDates(inc).raised])

\* expenses, then transfers, then income; `except Exception` ends the save
\* at the first error and nothing is written to the file
save_budget_data(inc, exps, trs) ==
    Let(SaveLoop(exps, <<>> \o [i \in 1..Len(exps) |-> SaveExpense(exps[i])]),
        LAMBDA e :
            IF e.raised
            THEN [income |-> inc, expenses |-> e.items, transfers |-> trs,
                  raised |-> TRUE]
            ELSE SaveTransfers(inc, e.items, trs))

\* generate_report compares a str with a date (TypeError): the start passed
\* to get_recurring_dates (while current_date <= end_date), an expiry date
\* (week_start > expiry_date), a date of an item that is not weekly
\* (week_start <= d <= week_end); a weekly item's dates and the dates of a
\* transfer without target are never read
ReportReadsText(inc, exps, trs) ==
    \/ AnyText(inc.dates)
    \/ \E i \in 1..Len(exps) :
         \/ IsText(exps[i].expiry_date)
         \/ exps[i].frequency # "weekly" /\ AnyText(exps[i].dates)
    \/ \E i \in 1..Len(trs) :
         /\ trs[i].frequency # "weekly"
         /\ AnyText(trs[i].dates)
         /\ (Regenerates(trs[i]) \/ trs[i].target # None)

(***************************************************************************)
(* Specification of the main menu: option 3 saves and then generates the   *)
(* report, option 4 saves and leaves                                       *)
(***************************************************************************)
\* save_budget_data(budget_config, budget_config_filename) of option 3
SaveBudgetData ==
    /\ pc = "menu"
    /\ \E s \in {save_budget_data(income, expenses, transfers)} :
         /\ income' = s.income
         /\ expenses' = s.expenses
         /\ transfers' = s.transfers
         /\ lastOp' = IF s.raised THEN "save_failed" ELSE "saved"
    /\ pc' = "option3"
    /\ UNCHANGED <<today, holidays, gen, balances, debit, rows>>

\* generate_report(budget_config, ...) of option 3, right after the save
ReportAfterSave ==
    /\ pc = "option3"
    /\ IF ReportReadsText(income, expenses, transfers)
       THEN /\ pc' = "crashed"
            /\ lastOp' = "raised"
            /\ UNCHANGED <<expenses, transfers, rows>>
       ELSE \E end_of_year \in {EndOfYear(today)} :
            \E e \in {RegenExpenses(expenses, end_of_year, holidays, today)},
               t \in {RegenTransfers(transfers, end_of_year, holidays, today)},
               p \in {IncomePaydates(income, end_of_year, holidays, today)} :
                /\ expenses' = e.items
                /\ transfers' = IF e.raised THEN transfers ELSE t.items
                /\ IF e.raised \/ t.raised \/ p.raised
                   THEN /\ pc' = "crashed"
                        /\ lastOp' = "raised"
                        /\ rows' = rows
                   ELSE /\ pc' = "menu"
                        /\ lastOp' = "report"
                        /\ rows' = BuildRows(StartOfCurrentWeek(today), end_of_year,
                                             income, p.dates, e.items, t.items,
                                             debit, balances)
    /\ UNCHANGED <<today, holidays, gen, income, balances, debit>>

\* option 4, answering yes to "save any changes before exiting"
SaveBeforeExit ==
    /\ pc = "menu"
    /\ \E s \in {save_budget_data(income, expenses, transfers)} :
         /\ income' = s.income
         /\ expenses' = s.expenses
         /\ transfers' = s.transfers
         /\ lastOp' = IF s.raised THEN "save_failed" ELSE "saved"
    /\ pc' = "exited"
    /\ UNCHANGED <<today, holidays, gen, balances, debit, rows>>

\* main.py gives an income no expiry date
SaveIncomes(holidays_set) ==
    {inc \in IncomeOptions(holidays_set) : inc.expiry_date = NoDate}

InitSave ==
    /\ today \in ReportTodays
    /\ holidays \in ReportHolidaySets
    /\ gen = NoCall
    /\ income \in SaveIncomes(holidays)
    /\ expenses \in SeqsUpTo(ExpenseItems(holidays), MaxExpenses)
    /\ transfers \in SeqsUpTo(TransferItems(holidays), MaxTransfers)
    /\ balances = SavedBalances
    /\ debit = 25000
    /\ rows = <<>>
    /\ lastOp = None
    /\ pc = "menu"

NextSave == SaveBudgetData \/ ReportAfterSave \/ SaveBeforeExit

SpecSave == InitSave /\ [][NextSave]_vars

(***************************************************************************)
(* Properties of the schedule generators (SpecGen)                         *)
(***************************************************************************)
MonthBased == {"monthly", "bi-monthly", "quarterly", "yearly"}

\* the anchor advanced by n months, the day re-derived from the anchor and
\* clamped to the last day of the target month
AddMonths(anchor, n) ==
    LET total == MonthOf(anchor) - 1 + n
        y == YearOf(anchor) + (total \div 12)
        m == (total % 12) + 1
        last == DaysInMonth(y, m)
    IN  MkDate(y, m, IF DayOf(anchor) < last THEN DayOf(anchor) ELSE last)

\* the latest business day on or before n, stated without the walk
LatestBusinessDay(n, holidays_set) ==
    CHOOSE b \in 0..n :
        /\ is_business_day(b, holidays_set)
        /\ \A x \in (b + 1)..n : ~is_business_day(x, holidays_set)

Returned(fn) == gen.st = "returned" /\ gen.fn = fn

\* C2: in get_recurring_dates, for monthly, bi-monthly, quarterly and yearly
\* the k-th nominal date is the anchor advanced by k steps with the day
\* re-derived from the anchor (min(anchor day, last day of the month)).
C2_NominalFromAnchor ==
    (gen.fn = "get_recurring_dates" /\ gen.st \in {"returned", "raised"}
        /\ gen.frequency \in MonthBased)
    => /\ gen.st = "returned"
       /\ \A k \in 1..Len(gen.nominal) :
            gen.nominal[k] =
                AddMonths(gen.start_date, (k - 1) * MonthStep(gen.frequency))

\* C3: whenever holiday adjustment applies, every returned date is a
\* business day and is the latest business day on or before one of the
\* nominal dates (the walk goes backward and skips no business day).
C3_AdjustedIsLatestBusinessDay ==
    gen.st = "returned"
    => \A i \in 1..Len(gen.dates) :
         /\ is_business_day(gen.dates[i], holidays)
         /\ \E k \in 1..Len(gen.nominal) :
              /\ gen.dates[i] <= gen.nominal[k]
              /\ \A x \in (gen.dates[i] + 1)..gen.nominal[k] :
                    ~is_business_day(x, holidays)

\* a returned date that was moved off a nominal date that is a holiday
C3_Witness ==
    /\ gen.st = "returned"
    /\ \E i \in 1..Len(gen.dates) :
         /\ gen.dates[i] \notin Range(gen.nominal)
         /\ \E k \in 1..Len(gen.nominal) :
              /\ gen.nominal[k] \in holidays
              /\ gen.dates[i] = LatestBusinessDay(gen.nominal[k], holidays)

\* the 15ths and last days of month inside [start, end]
TwiceNominal(start_date, end_date) ==
    {d \in start_date..end_date :
        DayOf(d) = 15 \/ DayOf(d) = DaysInMonth(YearOf(d), MonthOf(d))}

\* C4: calculate_twice_monthly_dates returns exactly the ascending,
\* duplicate-free list of every 15th and last day of month in [start, end]
\* walked back to the previous business day, one payday per nominal date;
\* for 2026-04-01..2026-07-16 without holidays that is the seven dates
\* 04-15, 04-30, 05-15, 05-29, 06-15, 06-30, 07-15.
C4_TwiceMonthlyExact ==
    Returned("calculate_twice_monthly_dates")
    => LET nominal == TwiceNominal(gen.start_date, gen.end_date)
       IN  /\ gen.dates =
                SetToSortedSeq({LatestBusinessDay(n, holidays) : n \in nominal})
           /\ Len(gen.dates) = Cardinality(nominal)
           /\ (gen.start_date = MkDate(2026, 4, 1)
                 /\ gen.end_date = MkDate(2026, 7, 16) /\ holidays = {})
              => gen.dates =
                   <<MkDate(2026, 4, 15), MkDate(2026, 4, 30), MkDate(2026, 5, 15),
                     MkDate(2026, 5, 29), MkDate(2026, 6, 15), MkDate(2026, 6, 30),
                     MkDate(2026, 7, 15)>>

(***************************************************************************)
(* Properties of generate_report (SpecReport)                              *)
(***************************************************************************)
Reported == lastOp = "report"

\* C1: the regeneration pass of generate_report is idempotent: a second run
\* right after a first one, with the same date and holidays and no edit in
\* between, leaves every dates list as the first run left it.
C1_RecalculateIdempotent ==
    [][(lastOp = "report" /\ lastOp' = "report")
          => (expenses' = expenses /\ transfers' = transfers /\ income' = income)]_vars

\* C6: when the income has an expiry date, no paydate after it stays in the
\* income's dates and no week that starts after the expiry shows income.
C6_NoIncomeAfterExpiry ==
    (Reported /\ income.expiry_date # NoDate)
    => /\ \A i \in 1..Len(income.dates) : income.dates[i] <= income.expiry_date
       /\ \A w \in 1..Len(rows) :
            rows[w].week_start > income.expiry_date => rows[w].income = 0

Net(row) == row.income - row.total_expenses - row.total_savings

\* C7: balance[w] = balance[w-1] + income[w] - expenses[w] - savings[w],
\* seeded from initial_debit_balance, so the nets of all rows sum to the
\* last running balance minus initial_debit_balance.
C7_RunningBalance ==
    Reported
    => /\ \A w \in 1..Len(rows) :
            rows[w].running_balance =
                (IF w = 1 THEN debit ELSE rows[w - 1].running_balance)
                + rows[w].income - rows[w].total_expenses - rows[w].total_savings
       /\ rows # <<>>
          => SumOver(1..Len(rows), [w \in 1..Len(rows) |-> Net(rows[w])])
               = rows[Len(rows)].running_balance - debit

\* a report with a week, past the first, that has income, expenses and savings
C7_Witness ==
    /\ Reported
    /\ \E w \in 2..Len(rows) :
         /\ rows[w].income > 0
         /\ rows[w].total_expenses > 0
         /\ rows[w].total_savings > 0
         /\ rows[w - 1].running_balance # debit

TransferredTo(row, k) ==
    IF k \in DOMAIN row.transferred THEN row.transferred[k] ELSE 0

\* C8: each account's cumulative balance starts from the stored balance,
\* grows every week by exactly the week's transfers to it and never falls.
C8_SavingsCumulative ==
    Reported
    => \A w \in 1..Len(rows) : \A k \in DOMAIN balances :
         LET prev == IF w = 1 THEN balances[k] ELSE rows[w - 1].saved[k]
         IN  /\ k \in DOMAIN rows[w].saved
             /\ rows[w].saved[k] = prev + TransferredTo(rows[w], k)
             /\ rows[w].saved[k] >= prev

\* an account that received transfers in two different weeks
C8_Witness ==
    /\ Reported
    /\ \E k \in DOMAIN balances : \E w \in 2..Len(rows) :
         /\ rows[w - 1].saved[k] > balances[k]
         /\ rows[w].saved[k] > rows[w - 1].saved[k]

Untargeted(k) == \A i \in 1..Len(transfers) : transfers[i].target # k

\* C9: an account no transfer targets shows its stored balance in every row.
C9_UntargetedAccountConstant ==
    Reported
    => \A k \in DOMAIN balances :
         Untargeted(k) => \A w \in 1..Len(rows) : rows[w].saved[k] = balances[k]

\* a report in which some other account does receive transfers
C9_Witness ==
    /\ Reported
    /\ \E k \in DOMAIN balances :
         /\ Untargeted(k)
         /\ balances[k] # 0
         /\ \E w \in 1..Len(rows) :
              rows[w].total_savings > 0 /\ rows[w].saved[k] = balances[k]

(***************************************************************************)
(* Properties of the pro-ration resolver (SpecProRate)                     *)
(***************************************************************************)
Recalculated == lastOp \in {"recalc", "report"}

\* a twice-monthly income whose expiry falls strictly after its most recent
\* scheduled paydate (and so is not itself a scheduled paydate)
ExpiryAfterLastPaydate ==
    /\ income.frequency = "twice-monthly"
    /\ income.expiry_date # NoDate
    /\ income.dates # <<>>
    /\ income.dates[Len(income.dates)] < income.expiry_date

\* the claim's example: amount 2000, last paydate 2026-01-15, expiry 2026-01-20
ExampleIncome ==
    /\ income.amount = 200000
    /\ income.dates[Len(income.dates)] = MkDate(2026, 1, 15)
    /\ income.expiry_date = MkDate(2026, 1, 20)

\* exactly one entry, dated on the expiry date, whose amount is within a cent
\* of -(amount / (days_in_month(last_paydate) / 2)) * (expiry - last_paydate)
OneFinalPaycheck ==
    LET last_paydate == income.dates[Len(income.dates)]
        month_days == DaysInMonth(YearOf(last_paydate), MonthOf(last_paydate))
        twice == 2 * income.amount * (income.expiry_date - last_paydate)
        entries == SelectSeq(expenses, IsProRatedIncome)
    IN  /\ Len(entries) = 1
        /\ entries[1].dates = <<income.expiry_date>>
        /\ entries[1].amount < 0
        /\ (0 - entries[1].amount) * month_days <= twice
        /\ twice < (1 - entries[1].amount) * month_days

\* the example's entry is about -cents/100
ExampleAmount(cents) ==
    ExampleIncome
    => \A i \in 1..Len(expenses) :
         IsProRatedIncome(expenses[i])
         => (expenses[i].amount + cents) \in {0 - 1, 0, 1}

\* the report shows the entry in the expiry week under its key
ReportedInExpiryWeek ==
    (lastOp = "report" /\ income.expiry_date >= StartOfCurrentWeek(today))
    => \E w \in 1..Len(rows) :
         /\ InWeek(income.expiry_date, rows[w].week_start)
         /\ "Income: Final Pro-rated Paycheck" \in DOMAIN rows[w].breakdown
         /\ \A i \in 1..Len(expenses) :
              IsProRatedIncome(expenses[i])
              => rows[w].breakdown["Income: Final Pro-rated Paycheck"]
                    = expenses[i].amount

Targets(savings_transfers) ==
    {savings_transfers[i].target : i \in 1..Len(savings_transfers)}

\* C10: after any sequence of savings-account and savings-transfer
\* management operations every transfer's target names an existing account:
\* deleting an account removes every transfer that targets it and no other,
\* and a transfer is only created or retargeted to an account that exists.
C10_TargetsExist ==
    [][/\ Targets(transfers') \subseteq DOMAIN balances'
       /\ \A old_name \in DOMAIN balances \ DOMAIN balances' :
            transfers' = SelectSeq(transfers, LAMBDA t : t.target # old_name)
       /\ (DOMAIN balances' = DOMAIN balances /\ Len(transfers') >= Len(transfers))
            => \A i \in 1..Len(transfers') :
                 (i > Len(transfers) \/ transfers'[i].target # transfers[i].target)
                 => transfers'[i].target \in DOMAIN balances]_vars

\* an account was deleted, its transfers went with it and another account's
\* transfer stayed
C10_Witness ==
    /\ lastOp = "delete_account_cascade"
    /\ transfers # <<>>
    /\ Targets(transfers) \subseteq DOMAIN balances

(***************************************************************************)
(* Properties of the regeneration pass (SpecReport)                        *)
(***************************************************************************)
Authoritative(item) == item.frequency \in {"one-time", "manual"}

PaydatesInWeek(dates, week_start) ==
    Cardinality({i \in 1..Len(dates) : InWeek(dates[i], week_start)})

\* C11: the regeneration pass of generate_report leaves the dates of every
\* one-time or manual item as they were, for expenses, savings transfers and
\* the income alike, and the report pays a one-time or manual income on
\* exactly its listed dates (a one-time income dated 2025-10-06 keeps
\* exactly [2025-10-06]).
C11_AuthoritativeDatesKept ==
    [][lastOp' \in {"report", "raised"}
        => /\ Len(expenses') = Len(expenses)
           /\ \A i \in 1..Len(expenses) :
                Authoritative(expenses[i]) => expenses'[i] = expenses[i]
           /\ Len(transfers') = Len(transfers)
           /\ \A i \in 1..Len(transfers) :
                Authoritative(transfers[i]) => transfers'[i] = transfers[i]
           /\ Authoritative(income)
                => /\ income' = income
                   /\ lastOp' = "report"
                        => \A w \in 1..Len(rows') :
                             rows'[w].income = income.amount *
                                PaydatesInWeek(income.dates, rows'[w].week_start)]_vars

\* a report over the one-time income of 2025-10-06 and over a manual item
\* with several dates
C11_Witness ==
    /\ lastOp = "report"
    /\ income.frequency = "one-time"
    /\ income.dates = <<MkDate(2025, 10, 6)>>
    /\ \E i \in 1..Len(expenses) :
         expenses[i].frequency = "manual" /\ Len(expenses[i].dates) > 1
    /\ \E i \in 1..Len(transfers) : Authoritative(transfers[i])

(***************************************************************************)
(* Properties of reports over a changing horizon (SpecHorizon)             *)
(***************************************************************************)
\* the occurrences the start date and the frequency yield in [now, end of year]
HorizonDates(item, holidays_set, now) ==
    KeepUntilExpiry(
        IF item.frequency = "bi-monthly"
        THEN calculate_bi_monthly_dates_every_two_months(
                 item.start_date_for_schedule, EndOfYear(now), holidays_set, now).dates
        ELSE get_recurring_dates(item.start_date_for_schedule, EndOfYear(now),
                                 item.frequency, holidays_set, now).dates,
        item.expiry_date)

\* C12: after the horizon changed and the schedules were regenerated, every
\* recurring item's dates are exactly the occurrences of its start date and
\* frequency inside the new horizon, whatever horizons earlier passes used,
\* also when an earlier pass left the item with no dates.
C12_DatesFollowHorizon ==
    lastOp = "report"
    => \A i \in 1..Len(expenses) :
         expenses[i].frequency \in Frequencies \ {"weekly"}
         => expenses[i].dates = HorizonDates(expenses[i], holidays, today)

\* the twice-monthly paydates of the horizon [now, end of year]
TwicePaydates(holidays_set, now) ==
    calculate_twice_monthly_dates(now, EndOfYear(now), holidays_set, now).dates

\* C13: with a twice-monthly income, every week of the report shows the
\* amount times the number of twice-monthly paydates of the horizon that
\* fall in that week, so every paydate is counted and no other week shows
\* income.
C13_TwiceMonthlyIncomeCounted ==
    (lastOp = "report" /\ income.frequency = "twice-monthly")
    => \A w \in 1..Len(rows) :
         rows[w].income
           = income.amount * PaydatesInWeek(TwicePaydates(holidays, today), rows[w].week_start)

\* the unadjusted cadence of an item inside [start_date, end_date]: its start
\* date plus k steps, the day of month taken from the start date
CadenceDates(item, start_date, end_date) ==
    IF item.frequency \in {"weekly", "bi-weekly"}
    THEN {d \in start_date..end_date :
            /\ d >= item.start_date_for_schedule
            /\ (d - item.start_date_for_schedule)
                 % (IF item.frequency = "weekly" THEN 7 ELSE 14) = 0}
    ELSE {AddMonths(item.start_date_for_schedule, k * MonthStep(item.frequency)) :
            k \in 0..(12 * NumYears)} \cap start_date..end_date

\* what the row of a week charges in the expense's column
Charged(row, item) ==
    IF KeyName(item) \in DOMAIN row.breakdown THEN row.breakdown[KeyName(item)] ELSE 0

\* C14: a periodic expense is charged in exactly the weeks of the report
\* that contain a date of its unadjusted cadence inside [today, end of year],
\* once per cadence date, without any weekend or holiday adjustment.
C14_ExpenseOnCadence ==
    lastOp = "report"
    => \A i \in 1..Len(expenses) :
         (/\ expenses[i].frequency \in Frequencies
          /\ \A j \in 1..Len(expenses) : KeyName(expenses[j]) = KeyName(expenses[i]) => j = i)
         => \A w \in 1..Len(rows) :
              Charged(rows[w], expenses[i])
                = expenses[i].amount
                    * Cardinality({d \in CadenceDates(expenses[i], today, EndOfYear(today)) :
                                     InWeek(d, rows[w].week_start)})

(***************************************************************************)
(* Further properties of the schedule generators (SpecGen)                 *)
(***************************************************************************)
\* the call that gen records, made again while the clock reads now
CallAt(now) ==
    IF gen.fn = "get_recurring_dates"
    THEN get_recurring_dates(gen.start_date, gen.end_date, gen.frequency, holidays, now)
    ELSE IF gen.fn = "calculate_twice_monthly_dates"
    THEN calculate_twice_monthly_dates(gen.start_date, gen.end_date, holidays, now)
    ELSE calculate_bi_monthly_dates_every_two_months(gen.start_date, gen.end_date,
                                                     holidays, now)

\* C15: the list a generator returns is determined by its start, end,
\* frequency and holiday set: the same call made on any other day returns
\* the same list.
C15_ClockIndependent ==
    gen.st = "returned" => \A now \in GenTodays : CallAt(now).dates = gen.dates

\* C16: every list a generator returns is sorted strictly ascending, so it
\* holds no date twice, whatever the start, the end and the holiday set.
C16_StrictlyAscending ==
    gen.st = "returned"
    => \A i \in 1..(Len(gen.dates) - 1) : gen.dates[i] < gen.dates[i + 1]

\* C17: every date a generator returns lies in the range it was asked for:
\* not before the start date and not after the end date, also when the
\* adjustment moved the first occurrence backward.
C17_DatesInsideRange ==
    gen.st = "returned"
    => \A i \in 1..Len(gen.dates) :
         gen.start_date <= gen.dates[i] /\ gen.dates[i] <= gen.end_date

\* C18: for monthly, bi-monthly, quarterly and yearly, get_recurring_dates
\* never raises and every step lands in the target month on the day of the
\* date it steps from, clamped to the last day of that month; this includes
\* starts on day 29-31 and a yearly start on Feb 29.
C18_RolloverClampedNeverFails ==
    (/\ gen.fn = "get_recurring_dates"
     /\ gen.frequency \in MonthBased
     /\ gen.st \in {"returned", "raised"})
    => /\ gen.st = "returned"
       /\ \A k \in 1..(Len(gen.nominal) - 1) :
            gen.nominal[k + 1] = AddMonths(gen.nominal[k], MonthStep(gen.frequency))

\* C19: get_recurring_dates rejects a frequency outside the supported set:
\* the call fails and returns no list of dates.
C19_UnknownFrequencyRejected ==
    (/\ gen.fn = "get_recurring_dates"
     /\ gen.frequency \notin Frequencies
     /\ gen.st \in {"returned", "raised"})
    => gen.st = "raised"

(***************************************************************************)
(* Transfers to a target that is no stored account (SpecReport)            *)
(***************************************************************************)
\* the targets of the transfers that name no account of savings_balances
UnknownTargets ==
    {transfers[i].target : i \in 1..Len(transfers)} \ (DOMAIN balances \cup {None})

\* the Saved Amount column of a target, absent until its first transfer
SavedIn(row, k) == IF k \in DOMAIN row.saved THEN row.saved[k] ELSE 0

\* C20: a transfer whose target is no stored account does not make the report
\* fail; the target's cumulative total starts from zero and is, in every
\* week, the sum of the transfers made to it so far, and the week's transfer
\* is deducted from the running balance like any other.
C20_UnknownTargetZeroSeeded ==
    (lastOp \in {"report", "raised"} /\ UnknownTargets # {})
    => /\ lastOp = "report"
       /\ \A k \in UnknownTargets : \A w \in 1..Len(rows) :
            /\ SavedIn(rows[w], k)
                 = (IF w = 1 THEN 0 ELSE SavedIn(rows[w - 1], k)) + TransferredTo(rows[w], k)
            /\ rows[w].total_savings
                 = SumOver(DOMAIN rows[w].transferred, rows[w].transferred)
            /\ rows[w].running_balance
                 = (IF w = 1 THEN debit ELSE rows[w - 1].running_balance)
                   + rows[w].income - rows[w].total_expenses - rows[w].total_savings

\* a report in which an unknown target received transfers in two weeks
C20_Witness ==
    /\ Reported
    /\ \E k \in UnknownTargets : \E w \in 2..Len(rows) :
         /\ TransferredTo(rows[w], k) > 0
         /\ SavedIn(rows[w - 1], k) > 0
         /\ SavedIn(rows[w], k) = SavedIn(rows[w - 1], k) + TransferredTo(rows[w], k)

(***************************************************************************)
(* Properties of the weekly rows (SpecHorizon)                             *)
(***************************************************************************)
\* the ISO week of a date: the number, within its year, of the Thursday of
\* the date's Monday-to-Sunday week
IsoWeekByThursday(date) ==
    LET thursday == date - Weekday(date) + 3
    IN  ((thursday - YearStart(YearOf(thursday))) \div 7) + 1

\* C21: the report has one row per week in ascending order: the first starts
\* on the Monday on or before today, each next one 7 days later, each ends 6
\* days after it starts, the rows go on exactly while the start is not after
\* the end of the year, the week number is the ISO week of the start, and
\* every date from today to the end of the year lies in exactly one row.
C21_WeeklyRows ==
    Reported
    => /\ rows # <<>>
       /\ Weekday(rows[1].week_start) = 0
       /\ rows[1].week_start <= today /\ today <= rows[1].week_start + 6
       /\ \A w \in 1..Len(rows) :
            /\ rows[w].week_end = rows[w].week_start + 6
            /\ rows[w].week_start <= EndOfYear(today)
            /\ rows[w].week_of_year = IsoWeekByThursday(rows[w].week_start)
            /\ w > 1 => rows[w].week_start = rows[w - 1].week_start + 7
       /\ rows[Len(rows)].week_start + 7 > EndOfYear(today)
       /\ \A d \in today..EndOfYear(today) :
            Cardinality({w \in 1..Len(rows) : InWeek(d, rows[w].week_start)}) = 1

\* a report made on a Sunday whose last row is ISO week 53 and ends in the
\* next year
C21_Witness ==
    /\ Reported
    /\ Weekday(today) = 6
    /\ Len(rows) > 2
    /\ rows[Len(rows)].week_of_year = 53
    /\ rows[Len(rows)].week_end > EndOfYear(today)

(***************************************************************************)
(* Properties of the weekly totals (SpecReport)                            *)
(***************************************************************************)
\* all_income_paydates of the report made today
ReportPaydates == IncomePaydates(income, EndOfYear(today), holidays, today).dates

\* C22: every row's income is the income amount times the number of income
\* paydates inside the row's week; two paydates in one week both count and a
\* week without a paydate has income 0.
C22_IncomePerPaydate ==
    Reported
    => \A w \in 1..Len(rows) :
         rows[w].income = income.amount * PaydatesInWeek(ReportPaydates, rows[w].week_start)

\* a report with a week of two paydates and a week of none
C22_Witness ==
    /\ Reported
    /\ income.amount > 0
    /\ \E w \in 1..Len(rows) :
         /\ PaydatesInWeek(ReportPaydates, rows[w].week_start) = 2
         /\ rows[w].income = 2 * income.amount
    /\ \E w \in 1..Len(rows) :
         /\ PaydatesInWeek(ReportPaydates, rows[w].week_start) = 0
         /\ rows[w].income = 0

\* the expense is the only one with its breakdown key
OwnKey(i) == \A j \in 1..Len(expenses) : KeyName(expenses[j]) = KeyName(expenses[i]) => j = i

\* C23: an expense of any frequency, weekly included, adds nothing to the
\* breakdown or the total of a week that holds none of its dates.
C23_NoDateNoCharge ==
    Reported
    => \A w \in 1..Len(rows) :
         /\ \A i \in 1..Len(expenses) :
              (OwnKey(i) /\ ~AnyInWeek(expenses[i].dates, rows[w].week_start))
              => Charged(rows[w], expenses[i]) = 0
         /\ (\A i \in 1..Len(expenses) : ~AnyInWeek(expenses[i].dates, rows[w].week_start))
            => rows[w].total_expenses = 0

\* C24: an expense with several dates inside one week is charged in that
\* week once per date, as income is counted once per paydate.
C24_ExpenseCompounds ==
    Reported
    => \A w \in 1..Len(rows) : \A i \in 1..Len(expenses) :
         (/\ OwnKey(i)
          /\ PaydatesInWeek(expenses[i].dates, rows[w].week_start) > 1
          /\ (expenses[i].expiry_date = NoDate \/ rows[w].week_start <= expenses[i].expiry_date))
         => Charged(rows[w], expenses[i])
              = expenses[i].amount * PaydatesInWeek(expenses[i].dates, rows[w].week_start)

HasExpiry(item) == item.expiry_date # NoDate

\* C25: an expense with an expiry date adds nothing to the breakdown or the
\* total of a week that starts after the expiry date, whatever its frequency
\* and dates; in a week that starts on or before the expiry date it is
\* charged by its frequency and dates alone, like an expense without expiry.
C25_ExpiredExpenseSkipped ==
    Reported
    => \A w \in 1..Len(rows) :
         /\ rows[w].total_expenses = SumOver(DOMAIN rows[w].breakdown, rows[w].breakdown)
         /\ \A i \in 1..Len(expenses) :
              (OwnKey(i) /\ HasExpiry(expenses[i]))
              => Charged(rows[w], expenses[i])
                   = IF rows[w].week_start > expenses[i].expiry_date THEN 0
                     ELSE IF \/ expenses[i].frequency = "weekly"
                             \/ AnyInWeek(expenses[i].dates, rows[w].week_start)
                          THEN expenses[i].amount
                          ELSE 0

\* an expense charged in a week that starts before its expiry date and not
\* charged in a later week that holds one of its dates
C25_Witness ==
    /\ Reported
    /\ \E i \in 1..Len(expenses) : \E w \in 2..Len(rows) :
         /\ HasExpiry(expenses[i])
         /\ rows[w].week_start > expenses[i].expiry_date
         /\ AnyInWeek(expenses[i].dates, rows[w].week_start)
         /\ Charged(rows[w], expenses[i]) = 0
         /\ \E v \in 1..(w - 1) : Charged(rows[v], expenses[i]) = expenses[i].amount

\* C26: an expense with an expiry date is charged in a week only for an
\* occurrence dated on or before the expiry date; an occurrence dated after
\* it brings no charge, for every frequency and also in the week that
\* contains the expiry date.
C26_NoChargeAfterExpiry ==
    Reported
    => \A w \in 1..Len(rows) : \A i \in 1..Len(expenses) :
         (OwnKey(i) /\ HasExpiry(expenses[i]) /\ Charged(rows[w], expenses[i]) > 0)
         => \E k \in 1..Len(expenses[i].dates) :
              /\ InWeek(expenses[i].dates[k], rows[w].week_start)
              /\ expenses[i].dates[k] <= expenses[i].expiry_date

\* C27: producing the weekly rows leaves the budget as it was: the debit
\* balance, the savings accounts and their balances, the income and every
\* expense and transfer, with their amounts, expiry dates and dates.
C27_ReportReadOnly ==
    [][lastOp' = "report"
         => /\ debit' = debit
            /\ balances' = balances
            /\ income' = income
            /\ expenses' = expenses
            /\ transfers' = transfers]_vars

(***************************************************************************)
(* Properties of save_budget_data (SpecSave)                               *)
(***************************************************************************)
\* some date or expiry date of the configuration is a str
ConfigHoldsText ==
    \/ AnyText(income.dates)
    \/ \E i \in 1..Len(expenses) :
         AnyText(expenses[i].dates) \/ IsText(expenses[i].expiry_date)
    \/ \E i \in 1..Len(transfers) : AnyText(transfers[i].dates)

\* C28: a save leaves every date and expiry date of the configuration a
\* date value, so the report that option 3 generates after the save
\* completes and a second save of the same configuration succeeds.
C28_SaveLeavesConfig ==
    /\ lastOp \in {"saved", "save_failed"} => ~ConfigHoldsText
    /\ pc # "crashed"
    /\ lastOp # "save_failed"

(***************************************************************************)
(* Conservation of the savings (SpecReport)                                *)
(***************************************************************************)
\* the balance a target starts from: the stored one, zero without account
Seeded(k) == IF k \in DOMAIN balances THEN balances[k] ELSE 0

\* what the targets have gained by the end of row w
GainedBy(w) ==
    SumOver(DOMAIN rows[w].saved, [k \in DOMAIN rows[w].saved |-> rows[w].saved[k] - Seeded(k)])

\* 'Total Savings Transferred' summed over the rows up to w
TransferredBy(w) == SumOver(1..w, [v \in 1..w |-> rows[v].total_savings])

\* C29: at every row the gains of all savings targets over their seeded
\* balances add up to the savings totals of the rows so far, and that total
\* is what the row deducts from the running balance as savings; a transfer
\* without target enters neither.
C29_SavingsConserved ==
    Reported
    => \A w \in 1..Len(rows) :
         /\ GainedBy(w) = TransferredBy(w)
         /\ rows[w].total_savings = SumOver(DOMAIN rows[w].transferred, rows[w].transferred)
         /\ None \notin DOMAIN rows[w].saved
         /\ rows[w].running_balance
              = (IF w = 1 THEN debit ELSE rows[w - 1].running_balance)
                + rows[w].income - rows[w].total_expenses - rows[w].total_savings

\* a report whose targets gained in two different weeks
C29_Witness ==
    /\ Reported
    /\ \E w \in 2..Len(rows) :
         /\ rows[w].total_savings > 0
         /\ TransferredBy(w - 1) > 0
         /\ GainedBy(w) = TransferredBy(w - 1) + rows[w].total_savings

(***************************************************************************)
(* The end of the horizon (SpecReport)                                     *)
(***************************************************************************)
\* the list holds a date of the week that is not after the end date
AnyInWeekUntil(dates, week_start, end_date) ==
    \E i \in 1..Len(dates) : InWeek(dates[i], week_start) /\ dates[i] <= end_date

\* C30: no income, expense or savings occurrence dated after the end of the
\* year enters a week row: a row's income counts only the paydates up to the
\* end date, and an expense or transfer with dated occurrences is charged
\* only in a week holding one of its dates up to the end date, also in the
\* last row, whose week may reach past the end date.
C30_NothingAfterEndDate ==
    Reported
    => \A w \in 1..Len(rows) :
         /\ rows[w].income
              = income.amount
                  * Cardinality({i \in 1..Len(ReportPaydates) :
                                   /\ InWeek(ReportPaydates[i], rows[w].week_start)
                                   /\ ReportPaydates[i] <= EndOfYear(today)})
         /\ \A i \in 1..Len(expenses) :
              (/\ OwnKey(i)
               /\ expenses[i].frequency # "weekly"
               /\ Charged(rows[w], expenses[i]) > 0)
              => AnyInWeekUntil(expenses[i].dates, rows[w].week_start, EndOfYear(today))
         /\ \A k \in DOMAIN rows[w].transferred :
              rows[w].transferred[k] > 0
              => \E i \in 1..Len(transfers) :
                   /\ transfers[i].target = k
                   /\ \/ transfers[i].frequency = "weekly"
                      \/ AnyInWeekUntil(transfers[i].dates, rows[w].week_start,
                                        EndOfYear(today))

====
